---- MODULE Spec2Model ----
(***************************************************************************)
(* Forklift maintenance dashboard (src/app.py): a Streamlit script that    *)
(* reads four sheets of one spreadsheet through a 60 second read cache,    *)
(* draws a five year contract-versus-spot cost projection, and appends     *)
(* maintenance log rows entered in a form.                                 *)
(*                                                                         *)
(* One run of the script is: load_all_data (line 68), the projection tab   *)
(* (lines 76-197), the entry form and the history (lines 202-233).         *)
(*                                                                         *)
(* Numbers: Python integers are unbounded, so are the model's.  A          *)
(* replacement frequency is a spreadsheet cell passed through float(); it  *)
(* is modelled as an exact rational [num, den] with den > 0, so that       *)
(* sub-annual (1/2, 2/3) and fractional (3/2) frequencies are real cases.  *)
(* Money cells are integers, on which int() is exact.                      *)
(***************************************************************************)
EXTENDS Integers, Sequences, FiniteSets, TLC

VARIABLES
    \* ---- the spreadsheet backend (external) and the credentials
    secrets_ok,         \* st.secrets holds usable service credentials
    spreadsheet_ok,     \* client.open(SHEET_NAME) succeeds
    sheet_ok,           \* per sheet: worksheet(name).get_all_records() succeeds
    sheet1_rows,        \* the rows of "sheet1" (the maintenance log)
    \* ---- st.cache_data for load_all_data: the entry and its age (seconds)
    cache,
    \* ---- the tables the script holds after line 68
    df_log, df_parts, df_contract, df_risk,
    load_source,        \* how the last load_all_data call was served
    load_error,         \* st.error of line 55 was shown
    raised,             \* the exception that ended the last run, or "none"
    \* ---- tab 1, the projection
    tab1_status,        \* "none" | "warning" | "shown" | "raised"
    selected_plan_name, \* the selectbox's value, NoPlan when it is not built
    monthly_cost,       \* 0 until line 93 has run
    contract_costs,
    spot_costs,
    risk_data,
    risk_base,
    \* ---- tab 2, the entry form
    form,               \* the submitted form's fields, NoForm without submit
    form_result,        \* "none" | "success" | "error"
    appended,           \* the records handed to append_row in the last run
    cache_cleared       \* st.cache_data.clear() was called in the last run

vars == << secrets_ok, spreadsheet_ok, sheet_ok, sheet1_rows, cache,
           df_log, df_parts, df_contract, df_risk, load_source, load_error,
           raised, tab1_status, selected_plan_name,
           monthly_cost, contract_costs, spot_costs,
           risk_data, risk_base, form, form_result, appended, cache_cleared >>

backend_vars == << secrets_ok, spreadsheet_ok, sheet_ok, sheet1_rows >>
tab1_vars == << tab1_status, selected_plan_name, monthly_cost, contract_costs, spot_costs,
                risk_data, risk_base >>
tab2_vars == << form, form_result, appended, cache_cleared >>

----------------------------------------------------------------------------
\* Bounds of the model.

\* Longest parts_master table drawn as an input of the projection.
MaxParts == 2

\* Most rows the log sheet grows to.
MaxLog == 1

\* Seconds the clock advances in one step.
TickStep == 30

\* Program constants.

\* years = [1, 2, 3, 4, 5]
HorizonYears == 5
years == 1 .. HorizonYears

\* yearly_contract_cost = monthly_cost * 12
MonthsPerYear == 12

\* @st.cache_data(ttl=60)
TTL == 60

----------------------------------------------------------------------------
\* Rationals, for the float() of a replacement frequency.

Rat(n, d) == [num |-> n, den |-> d]

\* float() of the frequency column of a parts row: the cell's value as a number.
PyFloat(cell) == Rat(cell.num, cell.den)

\* freq > 0, freq < 1, freq >= 1
FreqGtZero(freq) == freq.num > 0
FreqLtOne(freq) == freq.num < freq.den
FreqGeOne(freq) == freq.num >= freq.den

Abs(x) == IF x < 0 THEN -x ELSE x

\* y % freq == 0 for freq # 0: y is a whole multiple of freq (Python's
\* float modulo takes the sign of the divisor; zero is zero either way).
PyModIsZero(y, freq) == ((y * freq.den) % Abs(freq.num)) = 0

\* int(1/freq) for freq # 0: truncation toward zero.
PyIntOfReciprocal(freq) ==
    IF freq.num > 0 THEN freq.den \div freq.num
    ELSE -(freq.den \div (-freq.num))

\* int(cell) of an integer money cell.
PyInt(cell) == cell

----------------------------------------------------------------------------
\* Lines 119-127: what one part adds to year_cost in year y.  zero_div is
\* TRUE when the evaluation divides or takes a modulo by zero, which in
\* Python raises ZeroDivisionError and ends the script run.

\* Variant without the freq > 0 test of line 123: a zero frequency reaches
\* y % freq, a negative one is charged int(1/freq) times.
PartChargeUnguarded(part, y) ==
    LET freq == PyFloat(part.freq) IN
    IF freq.num = 0
    THEN [cost |-> 0, zero_div |-> TRUE]
    ELSE IF PyModIsZero(y, freq) \/ (FreqLtOne(freq) /\ y >= 1)
         THEN LET count == IF FreqGeOne(freq) THEN 1
                           ELSE PyIntOfReciprocal(freq)
                  cost_unit == PyInt(part.unit_price) + PyInt(part.labor)
              IN [cost |-> cost_unit * count, zero_div |-> FALSE]
         ELSE [cost |-> 0, zero_div |-> FALSE]

\* Variant without the y % freq test: every part is due in every year.
PartChargeEveryYear(part, y) ==
    LET freq == PyFloat(part.freq) IN
    IF FreqGtZero(freq)
    THEN LET count == IF FreqGeOne(freq) THEN 1
                      ELSE PyIntOfReciprocal(freq)
             cost_unit == PyInt(part.unit_price) + PyInt(part.labor)
         IN [cost |-> cost_unit * count, zero_div |-> FALSE]
    ELSE [cost |-> 0, zero_div |-> FALSE]

\* Variant without the correction of line 125: a due part counts once.
PartChargeSubAnnualOnce(part, y) ==
    LET freq == PyFloat(part.freq) IN
    IF FreqGtZero(freq)
       /\ (PyModIsZero(y, freq) \/ (FreqLtOne(freq) /\ y >= 1))
    THEN [cost |-> PyInt(part.unit_price) + PyInt(part.labor),
          zero_div |-> FALSE]
    ELSE [cost |-> 0, zero_div |-> FALSE]

\* Lines 119-127 as written.
PartCharge(part, y) ==
    LET freq == PyFloat(part.freq) IN
    IF FreqGtZero(freq)
       /\ (PyModIsZero(y, freq) \/ (FreqLtOne(freq) /\ y >= 1))
    THEN LET count == IF FreqGeOne(freq) THEN 1
                      ELSE PyIntOfReciprocal(freq)
             cost_unit == PyInt(part.unit_price) + PyInt(part.labor)
         IN [cost |-> cost_unit * count, zero_div |-> FALSE]
    ELSE [cost |-> 0, zero_div |-> FALSE]

\* Lines 118-127: year_cost, the inner loop over df_parts.iterrows().
RECURSIVE year_cost(_, _)
year_cost(parts, y) ==
    IF parts = << >> THEN 0
    ELSE PartCharge(Head(parts), y).cost + year_cost(Tail(parts), y)

\* Some evaluation of lines 120-127 divides by zero in year y.
YearRaises(parts, y) ==
    \E i \in 1 .. Len(parts) : PartCharge(parts[i], y).zero_div

\* Lines 114, 129: cumulative_spot after the years 1..y.
RECURSIVE cumulative_spot(_, _)
cumulative_spot(parts, y) ==
    IF y = 0 THEN 0
    ELSE cumulative_spot(parts, y - 1) + year_cost(parts, y)

\* Lines 113-130: the spot_costs list, one cumulative value per year.
SpotCosts(parts) == [y \in years |-> cumulative_spot(parts, y)]

\* The loop of lines 117-130 ends in ZeroDivisionError.
SpotRaises(parts) == \E y \in years : YearRaises(parts, y)

\* Variant that multiplies the monthly cost by the year alone.
ContractCostsPerMonthOnly(monthly) == [y \in years |-> monthly * y]

\* Lines 94, 110: contract_costs = [yearly_contract_cost * y for y in years]
ContractCosts(monthly) ==
    LET yearly_contract_cost == monthly * MonthsPerYear
    IN [y \in years |-> yearly_contract_cost * y]

\* Line 88: plan_names = the plan name column of df_contract
plan_names(contract) == {contract[i].name : i \in 1 .. Len(contract)}

\* Line 92: the first row whose plan name is the selected one (.iloc[0]).
plan_info(contract, selected) ==
    LET hits == {i \in 1 .. Len(contract) : contract[i].name = selected}
        first == CHOOSE i \in hits : \A j \in hits : i <= j
    IN contract[first]

\* Line 155: the max() of the repair cost column of df_risk
max_risk_cost(risk) ==
    LET costs == {risk[i].cost : i \in 1 .. Len(risk)}
    IN CHOOSE c \in costs : \A d \in costs : d <= c

\* Variant that puts the risk cost on every year.
RiskDataEveryYear(risk) == [y \in years |-> max_risk_cost(risk)]

\* Line 159: risk_data = [0, 0, 0, 0, max_risk_cost]
RiskData(risk) ==
    [y \in years |-> IF y = HorizonYears THEN max_risk_cost(risk) ELSE 0]

----------------------------------------------------------------------------
\* Lines 84-197: tab 1 as a function of the loaded tables and of the plan
\* chosen in the selectbox.  The result holds what the run leaves behind.

\* The selectbox of line 89 offers the plan names; with an empty contract
\* table the widget is never built.
NoPlan == "-"

Tab1None ==
    [status |-> "none", selected |-> NoPlan, monthly_cost |-> 0, contract_costs |-> << >>,
     spot_costs |-> << >>, risk_data |-> << >>, risk_base |-> << >>]

Tab1(parts, contract, risk, selected) ==
    IF parts = << >> \/ contract = << >>
    THEN \* lines 84-85: st.warning, and line 105 skips the projection
         [Tab1None EXCEPT !.status = "warning"]
    ELSE LET monthly == PyInt(plan_info(contract, selected).monthly)
         IN IF SpotRaises(parts)
            THEN [Tab1None EXCEPT !.status = "raised",
                                  !.selected = selected,
                                  !.monthly_cost = monthly,
                                  !.contract_costs = ContractCosts(monthly)]
            ELSE [status |-> "shown",
                  selected |-> selected,
                  monthly_cost |-> monthly,
                  contract_costs |-> ContractCosts(monthly),
                  spot_costs |-> SpotCosts(parts),
                  \* lines 154-167: the risk trace, stacked on spot_costs
                  risk_data |-> IF risk # << >> THEN RiskData(risk)
                                ELSE << >>,
                  risk_base |-> IF risk # << >> THEN SpotCosts(parts)
                                ELSE << >>]

Selectable(contract) ==
    IF contract = << >> THEN {NoPlan} ELSE plan_names(contract)

SetTab1(t) ==
    /\ tab1_status' = t.status
    /\ selected_plan_name' = t.selected
    /\ monthly_cost' = t.monthly_cost
    /\ contract_costs' = t.contract_costs
    /\ spot_costs' = t.spot_costs
    /\ risk_data' = t.risk_data
    /\ risk_base' = t.risk_base

----------------------------------------------------------------------------
\* Inputs of the projection: rows of parts_master, contract_master and
\* risk_cases as load_all_data may return them.

FreqCells ==
    { Rat(-1, 1), Rat(0, 1), Rat(1, 2), Rat(2, 3),
      Rat(1, 1), Rat(3, 2), Rat(2, 1), Rat(6, 1) }

\* (unit price, labor cost): a well-formed pair, a negative price, a negative labor cost.
MoneyCells == { <<3, 2>>, <<-4, 2>>, <<3, -1>> }

PartRow(f, m) == [freq |-> f, unit_price |-> m[1], labor |-> m[2]]

\* Every frequency with well-formed money cells; the ill-formed money cells
\* with a frequency of zero, of half a year and of one year.
PartRows ==
    { PartRow(f, <<3, 2>>) : f \in FreqCells }
    \cup { PartRow(f, m) : f \in {Rat(0, 1), Rat(1, 2), Rat(1, 1)},
                          m \in MoneyCells }

PartTables == UNION { [1 .. n -> PartRows] : n \in 0 .. MaxParts }

PlanRow(n, m) == [name |-> n, monthly |-> m]

ContractTables ==
    { << >>,
      << PlanRow("A", 50000) >>,
      << PlanRow("A", 0), PlanRow("B", 7), PlanRow("A", 9) >> }

RiskRow(n, c) == [name |-> n, cost |-> c]

RiskTables ==
    { << >>,
      << RiskRow("mast", 300000) >>,
      << RiskRow("tire", 5), RiskRow("engine", 9), RiskRow("pump", 2) >> }

\* The backend as the projection leaves it: untouched.
AllSheets == {"sheet1", "parts_master", "contract_master", "risk_cases"}

EmptyTables ==
    [df_log |-> << >>, df_parts |-> << >>, df_contract |-> << >>,
     df_risk |-> << >>, error |-> FALSE]

\* An entry of st.cache_data: the value load_all_data returned (with the
\* st.error it replays) and the seconds since it was stored.
NoCache == [valid |-> FALSE, age |-> 0, value |-> EmptyTables]

NoForm ==
    [submitted |-> FALSE, v_id |-> "", date |-> << >>, cost |-> 0,
     hours |-> 0, category |-> "", note |-> ""]

InitSim ==
    /\ secrets_ok = TRUE
    /\ spreadsheet_ok = TRUE
    /\ sheet_ok = [s \in AllSheets |-> TRUE]
    /\ sheet1_rows = << >>
    /\ cache = NoCache
    /\ df_log = << >>
    /\ df_parts \in PartTables
    /\ df_contract \in ContractTables
    /\ df_risk \in RiskTables
    /\ load_source = "backend"
    /\ load_error = FALSE
    /\ raised = "none"
    /\ tab1_status = "none"
    /\ selected_plan_name = NoPlan
    /\ monthly_cost = 0
    /\ contract_costs = << >>
    /\ spot_costs = << >>
    /\ risk_data = << >>
    /\ risk_base = << >>
    /\ form = NoForm
    /\ form_result = "none"
    /\ appended = << >>
    /\ cache_cleared = FALSE

\* Lines 86-197 with both master tables present.
Simulate(selected) ==
    /\ tab1_status = "none"
    /\ df_parts # << >> /\ df_contract # << >>
    /\ \E t \in {Tab1(df_parts, df_contract, df_risk, selected)} :
          /\ SetTab1(t)
          /\ raised' = IF t.status = "raised" THEN "ZeroDivisionError"
                       ELSE "none"
    /\ UNCHANGED << backend_vars, cache, df_log, df_parts, df_contract,
                    df_risk, load_source, load_error, tab2_vars >>

\* Lines 84-85 with a master table empty.
WarnMissingMaster ==
    /\ tab1_status = "none"
    /\ df_parts = << >> \/ df_contract = << >>
    /\ SetTab1(Tab1(df_parts, df_contract, df_risk, NoPlan))
    /\ UNCHANGED << backend_vars, cache, df_log, df_parts, df_contract,
                    df_risk, load_source, load_error, raised, tab2_vars >>

NextSim ==
    \/ \E selected \in Selectable(df_contract) : Simulate(selected)
    \/ WarnMissingMaster

SpecSim == InitSim /\ [][NextSim]_vars

----------------------------------------------------------------------------
\* THE SPREADSHEET GATEWAY, THE READ CACHE AND THE ENTRY FORM

\* The master sheets as they stand in the spreadsheet.
PartsMaster ==
    << [freq |-> Rat(1, 1), unit_price |-> 10000, labor |-> 5000],
       [freq |-> Rat(2, 1), unit_price |-> 20000, labor |-> 0] >>

ContractMaster == << PlanRow("standard", 50000) >>

RiskMaster == << RiskRow("mast", 300000) >>

\* worksheet(name).get_all_records() on the opened spreadsheet.
SheetContent(name) ==
    CASE name = "sheet1" -> sheet1_rows
      [] name = "parts_master" -> PartsMaster
      [] name = "contract_master" -> ContractMaster
      [] name = "risk_cases" -> RiskMaster

\* Lines 32-50: one try/except per sheet; a sheet that is missing or cannot
\* be read gives an empty DataFrame.
ReadSheet(name) == IF sheet_ok[name] THEN SheetContent(name) ELSE << >>

\* Variant with one try around the four reads: any failure empties all.
ReadAllOneTry ==
    IF spreadsheet_ok /\ \A name \in AllSheets : sheet_ok[name]
    THEN [df_log |-> SheetContent("sheet1"),
          df_parts |-> SheetContent("parts_master"),
          df_contract |-> SheetContent("contract_master"),
          df_risk |-> SheetContent("risk_cases"),
          error |-> FALSE]
    ELSE [EmptyTables EXCEPT !.error = TRUE]

\* Lines 28-56, the body of load_all_data after init_connection.
ReadAll ==
    IF spreadsheet_ok
    THEN [df_log |-> ReadSheet("sheet1"),
          df_parts |-> ReadSheet("parts_master"),
          df_contract |-> ReadSheet("contract_master"),
          df_risk |-> ReadSheet("risk_cases"),
          error |-> FALSE]
    ELSE \* lines 54-56: st.error and four empty tables
         [EmptyTables EXCEPT !.error = TRUE]

\* @st.cache_data(ttl=60): an entry is served while it is younger than ttl.
Fresh(c) == c.valid /\ c.age < TTL

\* Lines 25-56: a call of the cached load_all_data.  A fresh entry is
\* returned without running the body; otherwise the body runs, and its
\* return value is stored.  init_connection (line 27) stands outside the
\* try: its exception leaves load_all_data, and nothing is stored.
load_all_data ==
    IF Fresh(cache)
    THEN [raised |-> FALSE, source |-> "cache", value |-> cache.value,
          cache |-> cache]
    ELSE IF ~secrets_ok
         THEN [raised |-> TRUE, source |-> "none", value |-> EmptyTables,
               cache |-> cache]
         ELSE [raised |-> FALSE, source |-> "backend", value |-> ReadAll,
               cache |-> [valid |-> TRUE, age |-> 0, value |-> ReadAll]]

\* str(date) of a datetime.date: ISO format, zero padded, as its characters.
Digit(n) == n % 10
DateStr(date) ==
    << Digit(date.y \div 1000), Digit(date.y \div 100), Digit(date.y \div 10),
       Digit(date.y), "-", Digit(date.m \div 10), Digit(date.m), "-",
       Digit(date.d \div 10), Digit(date.d) >>

\* Variant that forgets the vehicle id.
EntryValidCostOnly(v_id, cost) == cost >= 0

\* Line 220: if v_id and cost >= 0
EntryValid(v_id, cost) == v_id # "" /\ cost >= 0

\* Line 221: record = [v_id, str(date), cost, hours, category, note]
Record(f) == << f.v_id, DateStr(f.date), f.cost, f.hours, f.category, f.note >>

\* Lines 58-61: add_log_data raises when the spreadsheet cannot be opened
\* or has no sheet1; otherwise append_row adds the record as the last row.
AppendFails == ~spreadsheet_ok \/ ~sheet_ok["sheet1"]

\* Variant without line 224.
CacheKept(c) == c

\* Line 224: st.cache_data.clear() empties the cache.
CacheCleared(c) == NoCache

\* Lines 219-226: the form's handler, given the cache the run's load left.
\* Its result: the message shown, the records handed to append_row, the
\* exception if any, and the sheet and the cache afterwards.
FormHandler(f, c) ==
    IF ~f.submitted
    THEN [result |-> "none", appended |-> << >>, raised |-> "none",
          cleared |-> FALSE, rows |-> sheet1_rows, cache |-> c]
    ELSE IF EntryValid(f.v_id, f.cost)
         THEN IF AppendFails
              THEN [result |-> "none", appended |-> << Record(f) >>,
                    raised |-> "append", cleared |-> FALSE,
                    rows |-> sheet1_rows, cache |-> c]
              ELSE [result |-> "success", appended |-> << Record(f) >>,
                    raised |-> "none", cleared |-> TRUE,
                    rows |-> Append(sheet1_rows, Record(f)),
                    cache |-> CacheCleared(c)]
         ELSE [result |-> "error", appended |-> << >>, raised |-> "none",
               cleared |-> FALSE, rows |-> sheet1_rows, cache |-> c]

\* What the operator can enter in the form.
VehicleIds == {"", "FL-01"}
Costs == {0, 1000}
Dates == { [y |-> 2024, m |-> 3, d |-> 5] }
Forms ==
    { [submitted |-> TRUE, v_id |-> v, date |-> dt, cost |-> c,
       hours |-> 120, category |-> "repair", note |-> "oil"] :
        v \in VehicleIds, dt \in Dates, c \in Costs }

\* One run of the script: line 68, tab 1, tab 2.
Run(f, selected) ==
    \E L \in {load_all_data} :
    IF L.raised
    THEN \* the exception of line 27 ends the run at line 68
         /\ raised' = "load"
         /\ load_source' = "none"
         /\ load_error' = FALSE
         /\ df_log' = << >> /\ df_parts' = << >>
         /\ df_contract' = << >> /\ df_risk' = << >>
         /\ SetTab1(Tab1None)
         /\ form' = NoForm /\ form_result' = "none"
         /\ appended' = << >> /\ cache_cleared' = FALSE
         /\ UNCHANGED << backend_vars, cache >>
    ELSE \E v \in {L.value} :
         \E sel \in {IF v.df_parts = << >> \/ v.df_contract = << >>
                     THEN NoPlan ELSE selected} :
         \E t \in {Tab1(v.df_parts, v.df_contract, v.df_risk, sel)} :
         \E h \in {FormHandler(IF t.status = "raised" THEN NoForm ELSE f,
                               L.cache)} :
            /\ df_log' = v.df_log /\ df_parts' = v.df_parts
            /\ df_contract' = v.df_contract /\ df_risk' = v.df_risk
            /\ load_source' = L.source
            /\ load_error' = v.error
            /\ SetTab1(t)
            /\ form' = IF t.status = "raised" THEN NoForm ELSE f
            /\ form_result' = h.result
            /\ appended' = h.appended
            /\ cache_cleared' = h.cleared
            /\ raised' = IF t.status = "raised" THEN "ZeroDivisionError"
                         ELSE h.raised
            /\ sheet1_rows' = h.rows
            /\ cache' = h.cache
            /\ UNCHANGED << secrets_ok, spreadsheet_ok, sheet_ok >>

\* A run without a submitted form: opening the page, or any other widget.
PageView ==
    \E selected \in Selectable(ContractMaster) : Run(NoForm, selected)

\* A run started by the form's submit button.
PageSubmit(f) ==
    /\ EntryValid(f.v_id, f.cost) => Len(sheet1_rows) < MaxLog
    /\ \E selected \in Selectable(ContractMaster) : Run(f, selected)

\* Time passes: the cache entry ages (an entry of age >= TTL is expired
\* whatever its age, so the age is counted up to TTL).
Tick ==
    /\ cache.valid /\ cache.age < TTL
    /\ cache' = [cache EXCEPT !.age = IF @ + TickStep > TTL THEN TTL
                                      ELSE @ + TickStep]
    /\ UNCHANGED << backend_vars, df_log, df_parts, df_contract, df_risk,
                    load_source, load_error, raised, tab1_vars, tab2_vars >>

\* The spreadsheet service goes away or comes back.
SpreadsheetFlips ==
    /\ spreadsheet_ok' = ~spreadsheet_ok
    /\ UNCHANGED << secrets_ok, sheet_ok, sheet1_rows, cache, df_log,
                    df_parts, df_contract, df_risk, load_source, load_error,
                    raised, tab1_vars, tab2_vars >>

\* A sheet is deleted or renamed, or restored.
SheetFlips(name) ==
    /\ sheet_ok' = [sheet_ok EXCEPT ![name] = ~@]
    /\ UNCHANGED << secrets_ok, spreadsheet_ok, sheet1_rows, cache,
                    df_log, df_parts, df_contract, df_risk, load_source,
                    load_error, raised, tab1_vars, tab2_vars >>

Init ==
    /\ secrets_ok \in BOOLEAN
    /\ spreadsheet_ok = TRUE
    /\ sheet_ok = [s \in AllSheets |-> TRUE]
    /\ sheet1_rows = << >>
    /\ cache = NoCache
    /\ df_log = << >> /\ df_parts = << >>
    /\ df_contract = << >> /\ df_risk = << >>
    /\ load_source = "none"
    /\ load_error = FALSE
    /\ raised = "none"
    /\ tab1_status = "none"
    /\ selected_plan_name = NoPlan
    /\ monthly_cost = 0
    /\ contract_costs = << >>
    /\ spot_costs = << >>
    /\ risk_data = << >>
    /\ risk_base = << >>
    /\ form = NoForm
    /\ form_result = "none"
    /\ appended = << >>
    /\ cache_cleared = FALSE

Next ==
    \/ PageView
    \/ \E f \in Forms : PageSubmit(f)
    \/ Tick
    \/ SpreadsheetFlips
    \/ \E name \in AllSheets : SheetFlips(name)

Spec == Init /\ [][Next]_vars

----------------------------------------------------------------------------
\* PROPERTIES OF THE PROJECTION (checked under SpecSim)

RECURSIVE SumFn(_, _)
SumFn(f, n) == IF n = 0 THEN 0 ELSE f[n] + SumFn(f, n - 1)

RemoveAt(s, i) == SubSeq(s, 1, i - 1) \o SubSeq(s, i + 1, Len(s))

\* The projection ran: both master tables were non-empty.
Projected == tab1_status \in {"shown", "raised"}

\* The row of df_contract the selectbox's value stands for.
SelectedRow ==
    CHOOSE i \in 1 .. Len(df_contract) :
        /\ df_contract[i].name = selected_plan_name
        /\ \A j \in 1 .. (i - 1) : df_contract[j].name # selected_plan_name

\* C1: for a non-negative monthly cost of the selected plan, the cumulative
\* contract cost of year y is monthlyCost * 12 * y for y in 1..5, so the
\* five year total is monthlyCost * 60, whatever the parts and risk tables.
C1_ContractCosts ==
    (Projected /\ df_contract[SelectedRow].monthly >= 0) =>
        /\ DOMAIN contract_costs = 1 .. 5
        /\ \A y \in 1 .. 5 :
               contract_costs[y] = df_contract[SelectedRow].monthly * 12 * y
        /\ contract_costs[5] = df_contract[SelectedRow].monthly * 60

C1_Witness ==
    /\ tab1_status = "shown"
    /\ selected_plan_name = "A"
    /\ df_contract[1].monthly = 50000
    /\ contract_costs[5] = 3000000
    /\ df_risk # << >>

\* The occurrence count the specification gives a part of frequency freq in
\* year y: 1 if freq >= 1 and y is a whole multiple of freq, floor(1/freq)
\* if 0 < freq < 1, and 0 otherwise.
SpecCount(freq, y) ==
    IF freq.num >= freq.den
    THEN IF \E k \in 1 .. y : k * freq.num = y * freq.den THEN 1 ELSE 0
    ELSE IF freq.num > 0
         THEN CHOOSE c \in 0 .. freq.den :
                  c * freq.num <= freq.den /\ (c + 1) * freq.num > freq.den
         ELSE 0

SpecYearCost(parts, y) ==
    SumFn([i \in 1 .. Len(parts) |->
              (parts[i].unit_price + parts[i].labor)
                  * SpecCount(parts[i].freq, y)],
          Len(parts))

SpecSpot(parts, y) == SumFn([k \in 1 .. y |-> SpecYearCost(parts, k)], y)

\* C2: the spot projection is a series of exactly 5 values whose value for
\* year y is the sum, over the years 1..y and over all parts, of
\* (unitPrice + laborCost) * count, with the count of SpecCount.
C2_SpotSeries ==
    Projected =>
        /\ tab1_status = "shown"
        /\ DOMAIN spot_costs = 1 .. 5
        /\ \A y \in 1 .. 5 : spot_costs[y] = SpecSpot(df_parts, y)

C2_Witness ==
    /\ tab1_status = "shown"
    /\ df_parts = << [freq |-> Rat(1, 2), unit_price |-> 3, labor |-> 2],
                     [freq |-> Rat(3, 2), unit_price |-> 3, labor |-> 2] >>
    /\ spot_costs = << 10, 20, 35, 45, 55 >>

NonPositiveFreq(part) == part.freq.num <= 0

\* C3: a part whose frequency is zero or negative adds nothing to any year
\* of the spot series, and the projection completes with it: no exception,
\* no division or modulo by zero.
C3_NonPositiveFrequency ==
    (Projected /\ \E i \in 1 .. Len(df_parts) : NonPositiveFreq(df_parts[i]))
    =>  /\ tab1_status = "shown"
        /\ raised = "none"
        /\ \A i \in 1 .. Len(df_parts) :
               NonPositiveFreq(df_parts[i]) =>
                   /\ \A y \in years :
                          PartCharge(df_parts[i], y)
                              = [cost |-> 0, zero_div |-> FALSE]
                   /\ spot_costs = SpotCosts(RemoveAt(df_parts, i))

C3_Witness ==
    /\ tab1_status = "shown"
    /\ raised = "none"
    /\ df_parts = << [freq |-> Rat(0, 1), unit_price |-> 3, labor |-> 2],
                     [freq |-> Rat(1, 1), unit_price |-> 3, labor |-> 2] >>
    /\ spot_costs = << 5, 10, 15, 20, 25 >>

\* C4 (as stated): for every parts list and every part of it, the five year
\* spot total with that part removed is no greater than with it present.
C4_RemovalNeverIncreases ==
    tab1_status = "shown" =>
        \A i \in 1 .. Len(df_parts) :
            SpotCosts(RemoveAt(df_parts, i))[HorizonYears]
                <= spot_costs[HorizonYears]

\* C5 (as stated): a row with a negative unitPrice or a negative laborCost
\* is skipped: it adds nothing to any year of the spot series, and the
\* projection is not aborted.
C5_NegativeRowSkipped ==
    (Projected /\ \E i \in 1 .. Len(df_parts) :
                      df_parts[i].unit_price < 0 \/ df_parts[i].labor < 0)
    =>  /\ tab1_status = "shown"
        /\ \A i \in 1 .. Len(df_parts) :
               (df_parts[i].unit_price < 0 \/ df_parts[i].labor < 0) =>
                   spot_costs = SpotCosts(RemoveAt(df_parts, i))

\* C6: the risk cost is added exactly once: the add-on is 0 in the years
\* 1..4 and the risk cost (the largest of the risk table) in year 5, stacked
\* on the spot series, so the horizon value exceeds the spot total by the
\* risk cost; with an empty risk table nothing is added in any year.
C6_RiskOnce ==
    tab1_status = "shown" =>
        IF df_risk = << >>
        THEN risk_data = << >> /\ risk_base = << >>
        ELSE /\ DOMAIN risk_data = 1 .. 5
             /\ \A y \in 1 .. 4 : risk_data[y] = 0
             /\ \E i \in 1 .. Len(df_risk) : risk_data[5] = df_risk[i].cost
             /\ \A i \in 1 .. Len(df_risk) : df_risk[i].cost <= risk_data[5]
             /\ risk_base = spot_costs
             /\ SumFn(risk_data, 5) = risk_data[5]
             /\ (risk_base[5] + risk_data[5]) - spot_costs[5] = risk_data[5]

C6_Witness ==
    /\ tab1_status = "shown"
    /\ Len(df_risk) = 1
    /\ df_risk[1].cost = 300000
    /\ risk_data = << 0, 0, 0, 0, 300000 >>
    /\ spot_costs[5] > 0
    /\ risk_base[5] = spot_costs[5]

WholeYears(part) == part.freq.den = 1 /\ part.freq.num >= 1

\* C10: when every frequency is a positive whole number of years, the
\* per-year accrual gives at year 5 what the horizon-total formula gives:
\* the sum over the parts of (unitPrice + laborCost) * floor(5 / frequency).
C10_HorizonTotal ==
    (tab1_status = "shown"
     /\ \A i \in 1 .. Len(df_parts) : WholeYears(df_parts[i]))
    =>  spot_costs[5] =
            SumFn([i \in 1 .. Len(df_parts) |->
                      (df_parts[i].unit_price + df_parts[i].labor)
                          * (5 \div df_parts[i].freq.num)],
                  Len(df_parts))

C10_Witness ==
    /\ tab1_status = "shown"
    /\ df_parts = << [freq |-> Rat(2, 1), unit_price |-> 3, labor |-> 2],
                     [freq |-> Rat(6, 1), unit_price |-> 3, labor |-> 2] >>
    /\ spot_costs[5] = 10

----------------------------------------------------------------------------
\* PROPERTIES OF THE GATEWAY, THE CACHE AND THE FORM (checked under Spec)

\* A run of the script, with or without a submitted form.
AnyPageRun == PageView \/ \E f \in Forms : PageSubmit(f)

\* The same steps, cheaper to evaluate on a pair of states: a run leaves
\* the backend's availability alone, and the form it leaves in `form` is
\* the one it was given, or NoForm when it ended before the form (and is
\* then a PageView step as well).
PageRunStep ==
    /\ UNCHANGED << secrets_ok, spreadsheet_ok, sheet_ok >>
    /\ IF form'.submitted THEN form' \in Forms /\ PageSubmit(form')
       ELSE PageView

\* Every run of the script is a PageRunStep.
PageRunStepsAreAllRuns == [][AnyPageRun => PageRunStep]_vars

Last(s) == s[Len(s)]

\* C7: a submitted entry whose vehicleId is empty is rejected with an error
\* message whatever its other fields: nothing is handed to append_row and
\* the read cache is not cleared; an entry with a vehicleId and a cost >= 0
\* (0 included) is handed to append_row as the 6-field record, and is the
\* sheet's last row once append_row has returned.
C7_EntryValidation ==
    form.submitted =>
        IF form.v_id = ""
        THEN /\ form_result = "error"
             /\ appended = << >>
             /\ ~cache_cleared
             /\ cache.valid
             /\ raised = "none"
        ELSE form.cost >= 0 =>
             /\ appended =
                    << << form.v_id, << 2, 0, 2, 4, "-", 0, 3, "-", 0, 5 >>,
                          form.cost, form.hours, form.category, form.note >> >>
             /\ form_result # "error"
             /\ raised = "none" =>
                    /\ form_result = "success"
                    /\ sheet1_rows # << >>
                    /\ Last(sheet1_rows) = appended[1]

C7_Witness ==
    /\ form.submitted
    /\ form.v_id = ""
    /\ form_result = "error"
    /\ appended = << >>
    /\ cache.valid
    /\ Len(sheet1_rows) = 1
    /\ sheet1_rows[1][1] = "FL-01"
    /\ sheet1_rows[1][3] = 0

\* C8: the cached read is invalidated after every write.  A step that
\* appends a row leaves the cache empty; an empty or expired cache stays
\* unserved until the next load_all_data call, which then reads the backend
\* (so its log table holds the appended row when sheet1 is readable); a load
\* with an entry younger than 60 seconds is served from the cache.
C8_InvalidatedAfterWrite ==
    [][ /\ sheet1_rows' # sheet1_rows => cache' = NoCache
        /\ IF PageRunStep
           THEN /\ (secrets_ok /\ ~(cache.valid /\ cache.age < 60)) =>
                       /\ load_source' = "backend"
                       /\ df_log' = IF spreadsheet_ok /\ sheet_ok["sheet1"]
                                    THEN sheet1_rows ELSE << >>
                /\ (cache.valid /\ cache.age < 60) =>
                       /\ load_source' = "cache"
                       /\ df_log' = cache.value.df_log
                       /\ df_parts' = cache.value.df_parts
                       /\ df_contract' = cache.value.df_contract
                       /\ df_risk' = cache.value.df_risk
           ELSE ~(cache.valid /\ cache.age < 60)
                    => ~(cache'.valid /\ cache'.age < 60)
      ]_vars

\* A submit run whose load was served from a fresh entry has appended its
\* row and emptied the cache.
C8_Witness ==
    /\ form_result = "success"
    /\ load_source = "cache"
    /\ cache_cleared
    /\ cache = NoCache
    /\ df_log = << >>
    /\ Len(sheet1_rows) = 1

\* C9: when load_all_data runs its body, each of the four tables it returns
\* is the sheet's content if the spreadsheet opens and that sheet is
\* readable, and empty otherwise, independently of the other sheets; when
\* the spreadsheet cannot be opened all four are empty, the error is shown
\* and no exception leaves load_all_data.
C9_MissingSheetsDegrade ==
    [][ (secrets_ok /\ ~(cache.valid /\ cache.age < 60) /\ PageRunStep) =>
            /\ raised' # "load"
            /\ df_log' = IF spreadsheet_ok /\ sheet_ok["sheet1"]
                         THEN sheet1_rows ELSE << >>
            /\ df_parts' = IF spreadsheet_ok /\ sheet_ok["parts_master"]
                           THEN PartsMaster ELSE << >>
            /\ df_contract' = IF spreadsheet_ok /\ sheet_ok["contract_master"]
                              THEN ContractMaster ELSE << >>
            /\ df_risk' = IF spreadsheet_ok /\ sheet_ok["risk_cases"]
                          THEN RiskMaster ELSE << >>
            /\ load_error' = ~spreadsheet_ok
      ]_vars

C9_Witness ==
    /\ load_source = "backend"
    /\ raised = "none"
    /\ cache.valid /\ cache.age = 0
    /\ spreadsheet_ok
    /\ sheet_ok = [name \in AllSheets |->
                      name \in {"parts_master", "risk_cases"}]
    /\ sheet1_rows # << >>
    /\ df_log = << >>
    /\ df_parts = PartsMaster
    /\ df_contract = << >>
    /\ df_risk = RiskMaster

====
